---- MODULE Spec2Model ----
(***************************************************************************)
(* CalorieAI backend (src/app.py): the response extractor, the numeric     *)
(* normalizer and their callers, as state machines.                        *)
(*                                                                         *)
(* Python values are tagged records:                                       *)
(*   [t |-> "none"]                 None                                   *)
(*   [t |-> "int",    n |-> i]      the int i                              *)
(*   [t |-> "num",    n |-> h]      the finite float h/100                 *)
(*   [t |-> "nan"], [t |-> "inf"], [t |-> "ninf"]   non-finite floats      *)
(*   [t |-> "numstr", n |-> h]      the str holding the shortest decimal   *)
(*                                  literal of h/100 ("3", "2.5")          *)
(*   [t |-> "str",    s |-> seq]    any other str, as its characters       *)
(*   [t |-> "list",   items |-> seq]                                       *)
(*   [t |-> "dict",   d |-> f]      f a function from keys to values       *)
(* A call that may raise returns [ok, v, err].                             *)
(***************************************************************************)
EXTENDS Integers, Sequences, FiniteSets, TLC

VARIABLES
  meal,          \* the argument of _normalize_meal
  normalized,    \* what the call returned or raised
  renormalized,  \* what a second call, on the first result, returned
  npc,           \* "idle", "input", "normalized", "raised" or "renormalized"
  content,       \* the argument of _extract_meals_from_content
  extracted,     \* what the call returned or raised
  epc,           \* "idle", "input", "returned" or "raised"
  cache_store,   \* _cache_store: key -> value
  cache_meta,    \* _cache_meta: the (key, timestamp) items in dict order
  now,           \* what time.time() returns
  CACHE_TTL_SECONDS,  \* the configured time-to-live
  CACHE_MAX_ITEMS,    \* the configured capacity
  cop,           \* the last cache call: its arguments, the cache before it
                 \* and what it returned
  SUGGEST_MEAL_DETERMINISTIC,  \* the configured determinism of suggest_meal
  req,           \* the HTTP request being served: endpoint, flow, input
  spc,           \* "idle", "posting" (at requests.post) or "done"
  attempt,       \* the number of the upstream attempt being made
  calls,         \* the upstream calls this request has made
  failures,      \* the upstream calls of this request that failed in transport
  slept,         \* the delays this request has slept, in seconds
  resp,          \* the HTTP response this request got from upstream
  looked,        \* the cache entry under the request's key when it came in
  result,        \* what the analysis function returned or raised
  response,      \* what the endpoint answered
  nreq           \* the number of requests received

nvars == <<meal, normalized, renormalized, npc>>
evars == <<content, extracted, epc>>
cvars == <<cache_store, cache_meta, now, CACHE_TTL_SECONDS, CACHE_MAX_ITEMS,
           cop>>
svars == <<SUGGEST_MEAL_DETERMINISTIC, req, spc, attempt, calls, failures,
           slept, resp, looked, result, response, nreq>>
vars == <<meal, normalized, renormalized, npc, content, extracted, epc,
          cache_store, cache_meta, now, CACHE_TTL_SECONDS, CACHE_MAX_ITEMS,
          cop, SUGGEST_MEAL_DETERMINISTIC, req, spc, attempt, calls, failures,
          slept, resp, looked, result, response, nreq>>

(***************************************************************************)
(* Bounds of the model.                                                    *)
(***************************************************************************)
\* numeric leaves range over the quarters -1/4 .. MaxQuarter/4
MaxQuarter == 3
\* meal names have up to MaxWords words
MaxWords == 5
\* JSON arrays in the model text have up to MaxItems elements
MaxItems == 2
\* every text of up to MaxRaw lexemes is an input of the extractor
MaxRaw == 3

(***************************************************************************)
(* Python values.                                                          *)
(***************************************************************************)
None == [t |-> "none"]
IntV(i) == [t |-> "int", n |-> i]
NumV(h) == [t |-> "num", n |-> h]
NaN == [t |-> "nan"]
Inf == [t |-> "inf"]
NInf == [t |-> "ninf"]
NumStr(h) == [t |-> "numstr", n |-> h]
Str(s) == [t |-> "str", s |-> s]
List(items) == [t |-> "list", items |-> items]
Dict(d) == [t |-> "dict", d |-> d]
EmptyFn == [k \in {} |-> None]
EmptyDict == Dict(EmptyFn)

Ok(v) == [ok |-> TRUE, v |-> v, err |-> ""]
Raise(e) == [ok |-> FALSE, v |-> None, err |-> e]

\* bool(x)
Truthy(x) ==
  CASE x.t = "none" -> FALSE
    [] x.t \in {"int", "num"} -> x.n # 0
    [] x.t = "str" -> x.s # << >>
    [] x.t = "list" -> x.items # << >>
    [] x.t = "dict" -> DOMAIN x.d # {}
    [] OTHER -> TRUE

\* d.get(k) on the key function d of a dict
Get(d, k) == IF k \in DOMAIN d THEN d[k] ELSE None

\* d.get(k, default)
GetDefault(d, k, default) == IF k \in DOMAIN d THEN d[k] ELSE default

\* d.get(k) or {}
GetOrEmpty(d, k) == IF Truthy(Get(d, k)) THEN Get(d, k) ELSE EmptyDict

(***************************************************************************)
(* Float arithmetic on hundredths, with IEEE non-finite values.            *)
(***************************************************************************)
Abs(i) == IF i < 0 THEN -i ELSE i

\* i / q rounded to the nearest integer, ties to even (Python's round)
RoundHalfEven(i, q) ==
  LET lo == i \div q
      r == i % q
  IN  IF 2 * r < q THEN lo
      ELSE IF 2 * r > q THEN lo + 1
      ELSE IF lo % 2 = 0 THEN lo ELSE lo + 1

\* round(x, decimals) for decimals = 1
PyRound1(x) == IF x.t = "num" THEN NumV(10 * RoundHalfEven(x.n, 10)) ELSE x

\* x < 0
FNeg(x) == \/ x.t = "ninf"
           \/ x.t = "num" /\ x.n < 0

\* a > b
FGt(a, b) ==
  CASE a.t = "nan" \/ b.t = "nan" -> FALSE
    [] a.t = "inf" -> b.t # "inf"
    [] a.t = "ninf" -> FALSE
    [] b.t = "inf" -> FALSE
    [] b.t = "ninf" -> TRUE
    [] OTHER -> a.n > b.n

\* a + b
FAdd(a, b) ==
  CASE a.t = "nan" \/ b.t = "nan" -> NaN
    [] a.t = "inf" -> IF b.t = "ninf" THEN NaN ELSE Inf
    [] a.t = "ninf" -> IF b.t = "inf" THEN NaN ELSE NInf
    [] b.t \in {"inf", "ninf"} -> b
    [] OTHER -> NumV(a.n + b.n)

\* -a
FMinus(a) ==
  CASE a.t = "inf" -> NInf
    [] a.t = "ninf" -> Inf
    [] a.t = "num" -> NumV(-a.n)
    [] OTHER -> a

\* a - b
FSub(a, b) == FAdd(a, FMinus(b))

\* c * a for a constant c > 0
FScale(c, a) == IF a.t = "num" THEN NumV(c * a.n) ELSE a

\* float(x)
PyFloat(x) ==
  CASE x.t \in {"num", "nan", "inf", "ninf"} -> Ok(x)
    [] x.t = "int" -> Ok(NumV(100 * x.n))
    [] x.t = "numstr" -> Ok(NumV(x.n))
    [] x.t = "str" -> Raise("ValueError")
    [] OTHER -> Raise("TypeError")

\* int(x): truncation toward zero for a float, a parse for a str
PyInt(x) ==
  CASE x.t = "int" -> Ok(x)
    [] x.t = "num" -> Ok(IntV(IF x.n < 0 THEN -(Abs(x.n) \div 100) ELSE x.n \div 100))
    [] x.t = "numstr" -> IF x.n % 100 = 0 THEN Ok(IntV(x.n \div 100)) ELSE Raise("ValueError")
    [] x.t = "nan" -> Raise("ValueError")
    [] x.t \in {"inf", "ninf"} -> Raise("OverflowError")
    [] x.t = "str" -> Raise("ValueError")
    [] OTHER -> Raise("TypeError")

(***************************************************************************)
(* str.strip, str.split and " ".join on strings of characters.             *)
(***************************************************************************)
RECURSIVE LStrip(_)
LStrip(s) == IF s # << >> /\ Head(s) = " " THEN LStrip(Tail(s)) ELSE s

RECURSIVE RStrip(_)
RStrip(s) ==
  IF s # << >> /\ s[Len(s)] = " " THEN RStrip(SubSeq(s, 1, Len(s) - 1)) ELSE s

\* s.strip()
Strip(s) == RStrip(LStrip(s))

RECURSIVE SplitAcc(_, _, _)
SplitAcc(s, cur, acc) ==
  IF s = << >> THEN (IF cur = << >> THEN acc ELSE Append(acc, cur))
  ELSE IF Head(s) = " "
       THEN SplitAcc(Tail(s), << >>, IF cur = << >> THEN acc ELSE Append(acc, cur))
       ELSE SplitAcc(Tail(s), Append(cur, Head(s)), acc)

\* s.split(): the maximal runs of non-whitespace characters
Split(s) == SplitAcc(s, << >>, << >>)

RECURSIVE Join(_)
\* " ".join(words)
Join(words) ==
  IF words = << >> THEN << >>
  ELSE IF Len(words) = 1 THEN words[1]
  ELSE words[1] \o <<" ">> \o Join(Tail(words))

(***************************************************************************)
(* The numeric normalizer.                                                 *)
(***************************************************************************)
\* _safe_num(x, decimals=1, non_negative=True)
safe_num(x) ==
  LET f == PyFloat(x)
  IN  IF ~f.ok THEN NumV(0)
      ELSE PyRound1(IF FNeg(f.v) THEN NumV(0) ELSE f.v)

\* _recompute_calories without its round(): int(cals) truncates
recompute_calories_truncating(protein, carbs_total, fat_total) ==
  LET cals == FAdd(FScale(4, FAdd(protein, carbs_total)), FScale(9, fat_total))
  IN  CASE cals.t = "nan" -> Raise("ValueError")
        [] cals.t \in {"inf", "ninf"} -> Raise("OverflowError")
        [] OTHER -> Ok(IntV(cals.n \div 100))

\* _recompute_calories: int(round(4.0 * (protein + carbs_total) + 9.0 * fat_total))
recompute_calories(protein, carbs_total, fat_total) ==
  LET cals == FAdd(FScale(4, FAdd(protein, carbs_total)), FScale(9, fat_total))
  IN  CASE cals.t = "nan" -> Raise("ValueError")
        [] cals.t \in {"inf", "ninf"} -> Raise("OverflowError")
        [] OTHER -> Ok(IntV(RoundHalfEven(cals.n, 100)))

\* dict(meal)
PyDict(x) ==
  CASE x.t = "dict" -> Ok(x.d)
    [] x.t = "list" /\ x.items = << >> -> Ok(EmptyFn)
    [] x.t = "str" /\ x.s = << >> -> Ok(EmptyFn)
    [] x.t \in {"str", "numstr"} -> Raise("ValueError")
    [] OTHER -> Raise("TypeError")

\* the clamps, net carbs and reassembly of _normalize_meal, given the
\* key functions of macros, carbohydrates and fat
normalize_macros(macros, carbs, fat) ==
  LET protein == safe_num(Get(macros, "protein"))
      carbs_total == safe_num(Get(carbs, "total"))
      fiber0 == safe_num(Get(carbs, "fiber"))
      sugar0 == safe_num(Get(carbs, "sugar"))
      addedSugar == safe_num(Get(carbs, "addedSugar"))
      sugarAlcohols == safe_num(Get(carbs, "sugarAlcohols"))
      allulose == safe_num(Get(carbs, "allulose"))
      fat_total == safe_num(Get(fat, "total"))
      saturated0 == safe_num(Get(fat, "saturated"))
      monounsaturated == safe_num(Get(fat, "monounsaturated"))
      polyunsaturated == safe_num(Get(fat, "polyunsaturated"))
      omega3 == safe_num(Get(fat, "omega3"))
      omega6 == safe_num(Get(fat, "omega6"))
      cholesterol == safe_num(Get(fat, "cholesterol"))
      sugar == IF FGt(sugar0, carbs_total) THEN carbs_total ELSE sugar0
      fiber == IF FGt(fiber0, carbs_total) THEN carbs_total ELSE fiber0
      saturated == IF FGt(saturated0, fat_total) THEN fat_total ELSE saturated0
      net0 == FSub(FSub(FSub(carbs_total, fiber), sugarAlcohols), allulose)
      net == PyRound1(IF FNeg(net0) THEN NumV(0) ELSE net0)
      calories == recompute_calories(protein, carbs_total, fat_total)
  IN  IF ~calories.ok THEN calories
      ELSE Ok(Dict([calories |-> calories.v,
                    protein |-> protein,
                    carbohydrates |->
                      Dict([total |-> carbs_total, net |-> net, fiber |-> fiber,
                            sugar |-> sugar, addedSugar |-> addedSugar,
                            sugarAlcohols |-> sugarAlcohols, allulose |-> allulose]),
                    fat |->
                      Dict([total |-> fat_total, saturated |-> saturated,
                            monounsaturated |-> monounsaturated,
                            polyunsaturated |-> polyunsaturated,
                            omega3 |-> omega3, omega6 |-> omega6,
                            cholesterol |-> cholesterol])]))

\* the serving normalization of _normalize_meal, given the key function of ss
normalize_serving(ss) ==
  LET qty0 == PyInt(GetDefault(ss, "qty", IntV(1)))
      qty == IF qty0.ok THEN qty0.v ELSE IntV(1)
      gf == PyFloat(GetDefault(ss, "grams", IntV(0)))
      grams0 == IF gf.ok THEN PyInt(gf.v) ELSE gf
      grams == IF grams0.ok THEN grams0.v ELSE IntV(0)
      unit == GetDefault(ss, "unit", Str(<<"plate">>))
  IN  Dict([qty |-> qty, unit |-> unit, grams |-> grams])

\* the shortening with the limit misread: names of up to 5 words are kept
shorten_name_over_five(v) ==
  IF ~Truthy(v) THEN Ok(v)
  ELSE IF v.t = "numstr" THEN Ok(v)
  ELSE IF v.t # "str" THEN Raise("AttributeError")
  ELSE LET name == Strip(v.s)
           words == Split(name)
       IN  IF name # << >> /\ Len(words) > 5
           THEN Ok(Str(Join(SubSeq(words, 1, 4))))
           ELSE Ok(v)

\* the meal-name shortening of _normalize_meal: the new value of m["mealName"],
\* or the old one when the code leaves it alone
shorten_name(v) ==
  IF ~Truthy(v) THEN Ok(v)
  ELSE IF v.t = "numstr" THEN Ok(v)
  ELSE IF v.t # "str" THEN Raise("AttributeError")
  ELSE LET name == Strip(v.s)
           words == Split(name)
       IN  IF name # << >> /\ Len(words) > 4
           THEN Ok(Str(Join(SubSeq(words, 1, 4))))
           ELSE Ok(v)

\* _normalize_meal(meal)
normalize_meal(x) ==
  LET md == PyDict(x) IN
  IF ~md.ok THEN md ELSE
  LET m == md.v
      macros == GetOrEmpty(m, "macros")
  IN
  IF macros.t # "dict" THEN Raise("AttributeError") ELSE
  LET carbs == GetOrEmpty(macros.d, "carbohydrates") IN
  IF carbs.t # "dict" THEN Raise("AttributeError") ELSE
  LET fat == GetOrEmpty(macros.d, "fat") IN
  IF fat.t # "dict" THEN Raise("AttributeError") ELSE
  LET macros_out == normalize_macros(macros.d, carbs.d, fat.d) IN
  IF ~macros_out.ok THEN macros_out ELSE
  LET ss == GetOrEmpty(m, "servingSize") IN
  IF ss.t # "dict" THEN Raise("AttributeError") ELSE
  LET name == shorten_name(Get(m, "mealName")) IN
  IF ~name.ok THEN name ELSE
  Ok(Dict([k \in DOMAIN m \cup {"macros", "servingSize"} |->
             IF k = "macros" THEN macros_out.v
             ELSE IF k = "servingSize" THEN normalize_serving(ss.d)
             ELSE IF k = "mealName" THEN name.v
             ELSE m[k]]))

(***************************************************************************)
(* Inputs of the normalizer: records as the upstream model may return      *)
(* them, with missing fields, wrong types and non-finite numbers.          *)
(***************************************************************************)
Quarters == {NumV(25 * k) : k \in -1 .. MaxQuarter}

\* values for the leaves that enter the net-carbs formula
NetVals == Quarters \cup {NaN, Inf}

\* values for any numeric leaf
LeafVals ==
  Quarters \cup {None, NaN, Inf, NInf, NumV(-550), IntV(-3), IntV(2), NumStr(125),
                 NumStr(300), Str(<<"abc">>), List(<< >>), EmptyDict}

\* values for a field the code expects to be a mapping or a name
ShapeVals ==
  {None, IntV(0), IntV(5), NaN, Str(<< >>), Str(<<"abc">>), NumStr(125),
   List(<< >>), List(<<IntV(1)>>), EmptyDict}

UnitVals == {None, Str(<<"cup">>), IntV(3)}

CalorieVals == {None, IntV(999), Str(<<"abc">>), NaN}

\* f restricted to the keys in S
Restrict(f, S) == [k \in S |-> f[k]]

CarbMeal(carbs) == Dict([macros |-> Dict([carbohydrates |-> Dict(carbs)])])

FatMeal(fat) == Dict([macros |-> Dict([fat |-> Dict(fat)])])

NetMeals ==
  {CarbMeal([total |-> a, fiber |-> b, sugarAlcohols |-> c, allulose |-> d]) :
     a \in NetVals, b \in NetVals, c \in NetVals, d \in NetVals}

ClampMeals ==
  {CarbMeal([total |-> a, sugar |-> b]) : a \in LeafVals, b \in LeafVals}
  \cup {FatMeal([total |-> a, saturated |-> b]) : a \in LeafVals, b \in LeafVals}

CalorieMeals ==
  {Dict([macros |-> Dict([calories |-> c, protein |-> p,
                          carbohydrates |-> Dict([total |-> a]),
                          fat |-> Dict([total |-> f])])]) :
     c \in CalorieVals, p \in Quarters, a \in Quarters, f \in Quarters}

CarbLeaves ==
  {"total", "net", "fiber", "sugar", "addedSugar", "sugarAlcohols", "allulose"}

FatLeaves ==
  {"total", "saturated", "monounsaturated", "polyunsaturated", "omega3", "omega6",
   "cholesterol"}

LeafMeals ==
  {CarbMeal([k \in {leaf} |-> v]) : leaf \in CarbLeaves, v \in LeafVals}
  \cup {FatMeal([k \in {leaf} |-> v]) : leaf \in FatLeaves, v \in LeafVals}
  \cup {Dict([macros |-> Dict([k \in {leaf} |-> v])]) :
          leaf \in {"protein", "calories"}, v \in LeafVals}

ShapeMeals ==
  {Dict([k \in {key} |-> v]) :
     key \in {"macros", "servingSize", "mealName"}, v \in ShapeVals}
  \cup {Dict([macros |-> Dict([k \in {key} |-> v])]) :
          key \in {"carbohydrates", "fat"}, v \in ShapeVals}
  \cup {EmptyDict}

ServingMeals ==
  {Dict([servingSize |-> Dict(Restrict([qty |-> q, grams |-> g, unit |-> u], S))]) :
     q \in LeafVals, g \in LeafVals, u \in UnitVals,
     S \in SUBSET {"qty", "grams", "unit"}}

WordAtoms == <<"a", "b", "c", "d", "e", "f", "g", "h">>

RECURSIVE NameOf(_, _)
\* the name of k words, its words separated by sep
NameOf(k, sep) ==
  IF k = 0 THEN << >>
  ELSE IF k = 1 THEN <<WordAtoms[1], "x">>
  ELSE NameOf(k - 1, sep) \o sep \o <<WordAtoms[k]>>

Names ==
  {lead \o NameOf(k, sep) \o trail :
     k \in 0 .. MaxWords, sep \in {<<" ">>, <<" ", " ">>},
     lead \in {<< >>, <<" ">>}, trail \in {<< >>, <<" ">>}}

NameMeals ==
  {Dict([mealName |-> Str(n), ingredients |-> Str(<<"rice">>),
         category |-> Str(<<"lunch">>), micronutrients |-> List(<< >>)]) :
     n \in Names}

\* the scenario of the specification's section 8
ScenarioMeal ==
  Dict([macros |->
          Dict([protein |-> IntV(-5),
                carbohydrates |-> Dict([total |-> IntV(50), fiber |-> IntV(60)]),
                fat |-> Dict([total |-> IntV(10), saturated |-> IntV(20)])])])

MealInputs ==
  NetMeals \cup ClampMeals \cup CalorieMeals \cup LeafMeals \cup ShapeMeals
  \cup ServingMeals \cup NameMeals \cup {ScenarioMeal}

(***************************************************************************)
(* The normalizer applied to one input record, and then to its own output. *)
(***************************************************************************)
\* no normalizer call is in progress
NormIdle ==
  /\ meal = EmptyDict
  /\ normalized = Ok(None)
  /\ renormalized = Ok(None)
  /\ npc = "idle"

\* no extractor call is in progress
ExtractIdle ==
  /\ content = << >>
  /\ extracted =
       [ok |-> FALSE, v |-> << >>, via |-> 0, parsed |-> None, status |-> 502,
        detail |-> "", snippet |-> << >>]
  /\ epc = "idle"

\* no cache call was made: the cache is empty, as at import, and the
\* configuration is the default one
NoCacheCall ==
  [op |-> "none", key |-> << >>, value |-> None, ret |-> None,
   store |-> EmptyFn, meta |-> << >>, evicted |-> {},
   after |-> [op |-> "none", key |-> << >>, value |-> None]]

CacheIdle ==
  /\ cache_store = EmptyFn
  /\ cache_meta = << >>
  /\ now = 0
  /\ CACHE_TTL_SECONDS = 86400
  /\ CACHE_MAX_ITEMS = 256
  /\ cop = NoCacheCall

\* the list object made by request number id (0: none)
Obj(id, items) == [id |-> id, items |-> items]
NoObj == Obj(0, << >>)

\* exceptions: the type, for an HTTPException its status_code and the head
\* of its detail, and what the detail goes on with: nothing, a text, or
\* str() of the exception it was made from
NoMore == [kind |-> "none", text |-> << >>, type |-> "", status |-> 0,
           msg |-> ""]
NoExc == [type |-> "none", status |-> 0, msg |-> "", more |-> NoMore]
NoResp == [status |-> 0, kind |-> "none", content |-> << >>]
NoReq == [endpoint |-> "", flow |-> "", input |-> << >>]
NoLook == [present |-> FALSE, fresh |-> FALSE, value |-> NoObj]
NoResult == [ok |-> FALSE, v |-> NoObj, exc |-> NoExc, why |-> "none"]
NoResponse == [status |-> 0, body |-> << >>, msg |-> "", inner |-> NoExc]

\* no request is being served
ServeIdle ==
  /\ SUGGEST_MEAL_DETERMINISTIC = FALSE
  /\ req = NoReq
  /\ spc = "idle"
  /\ attempt = 0
  /\ calls = 0
  /\ failures = 0
  /\ slept = << >>
  /\ resp = NoResp
  /\ looked = NoLook
  /\ result = NoResult
  /\ response = NoResponse
  /\ nreq = 0

NormInit ==
  /\ meal \in MealInputs
  /\ normalized = Ok(None)
  /\ renormalized = Ok(None)
  /\ npc = "input"
  /\ ExtractIdle
  /\ CacheIdle
  /\ ServeIdle

\* what a normalizer call leaves alone
NormFrame == UNCHANGED <<evars, cvars, svars>>

\* meal = _normalize_meal(meal)
Normalize ==
  /\ npc = "input"
  /\ normalized' = normalize_meal(meal)
  /\ npc' = IF normalized'.ok THEN "normalized" ELSE "raised"
  /\ UNCHANGED <<meal, renormalized>>
  /\ NormFrame

\* _normalize_meal applied to an already normalized record
Renormalize ==
  /\ npc = "normalized"
  /\ renormalized' = normalize_meal(normalized.v)
  /\ npc' = "renormalized"
  /\ UNCHANGED <<meal, normalized>>
  /\ NormFrame

NormNext == Normalize \/ Renormalize

(***************************************************************************)
(* Claims about the normalizer (under SpecNorm).                           *)
(***************************************************************************)
Returned == npc \in {"normalized", "renormalized"}

OutMacros == normalized.v.d.macros.d
OutCarbs == OutMacros.carbohydrates.d
OutFat == OutMacros.fat.d
OutServing == normalized.v.d.servingSize.d

\* the input's macros, carbohydrates and fat as _normalize_meal reads them
InMacros == GetOrEmpty(meal.d, "macros").d
InCarbs == GetOrEmpty(InMacros, "carbohydrates").d
InFat == GetOrEmpty(InMacros, "fat").d

\* a == b on floats
FEq(a, b) == a.t # "nan" /\ b.t # "nan" /\ a = b

\* a <= b on floats
FLe(a, b) == a.t # "nan" /\ b.t # "nan" /\ ~FGt(a, b)

\* max(x, 0)
FMax0(x) == IF FGt(NumV(0), x) THEN NumV(0) ELSE x

\* the integer nearest to h/100, the even one of two equally near
NearestInt(h) ==
  CHOOSE k \in 0 .. (h \div 100) + 1 :
    /\ 2 * Abs(100 * k - h) <= 100
    /\ 2 * Abs(100 * k - h) = 100 => k % 2 = 0

SetKey(f, key, v) == [k \in DOMAIN f \cup {key} |-> IF k = key THEN v ELSE f[k]]
DelKey(f, key) == [k \in DOMAIN f \ {key} |-> f[k]]

\* the input record with another calorie value supplied, or with none
WithCalories(c) == Dict(SetKey(meal.d, "macros", Dict(SetKey(InMacros, "calories", c))))
WithoutCalories == Dict(SetKey(meal.d, "macros", Dict(DelKey(InMacros, "calories"))))

\* C1: _normalize_meal returns a record for every input mapping, never
\* raising, and a numeric leaf that float() cannot coerce becomes 0.0.
C1_AlwaysSucceeds ==
  (npc # "input" /\ meal.t = "dict") =>
    /\ normalized.ok
    /\ ~PyFloat(Get(InMacros, "protein")).ok => OutMacros.protein = NumV(0)
    /\ \A k \in CarbLeaves \ {"net"} :
         ~PyFloat(Get(InCarbs, k)).ok => OutCarbs[k] = NumV(0)
    /\ \A k \in FatLeaves : ~PyFloat(Get(InFat, k)).ok => OutFat[k] = NumV(0)

\* C2: after _normalize_meal the calories are round(4 * (protein +
\* carbohydrates.total) + 9 * fat.total) of the output's own values (round
\* as Python rounds, ties to even), whatever calorie value the input supplied.
C2_CaloriesFromOutput ==
  Returned =>
    /\ OutMacros.calories.t = "int"
    /\ OutMacros.protein.t = "num"
    /\ OutCarbs.total.t = "num"
    /\ OutFat.total.t = "num"
    /\ OutMacros.calories.n =
         NearestInt(4 * (OutMacros.protein.n + OutCarbs.total.n) + 9 * OutFat.total.n)
    /\ \A c \in CalorieVals : normalize_meal(WithCalories(c)) = normalized
    /\ normalize_meal(WithoutCalories) = normalized

\* C2 witness: a supplied 999 kcal is replaced by the 4 kcal of 0.5 g of fat
C2_Witness ==
  /\ npc = "normalized"
  /\ Get(InMacros, "calories") = IntV(999)
  /\ OutFat.total = NumV(50)
  /\ OutMacros.calories = IntV(4)

\* C3: after _normalize_meal, net = max(total - fiber - sugarAlcohols -
\* allulose, 0) exactly, on the output's own values.
C3_NetFormula ==
  Returned =>
    FEq(OutCarbs.net,
        FMax0(FSub(FSub(FSub(OutCarbs.total, OutCarbs.fiber), OutCarbs.sugarAlcohols),
                   OutCarbs.allulose)))

\* C4: after _normalize_meal no numeric field of macros is negative, sugar
\* and fiber are at most carbohydrates.total, saturated is at most fat.total,
\* and the scenario of section 8 gives protein 0, fiber 50, saturated 10,
\* net 0 and 290 kcal.
C4_NonNegativeAndClamped ==
  Returned =>
    /\ ~FNeg(OutMacros.calories) /\ ~FNeg(OutMacros.protein)
    /\ \A k \in CarbLeaves : ~FNeg(OutCarbs[k])
    /\ \A k \in FatLeaves : ~FNeg(OutFat[k])
    /\ FLe(OutCarbs.sugar, OutCarbs.total)
    /\ FLe(OutCarbs.fiber, OutCarbs.total)
    /\ FLe(OutFat.saturated, OutFat.total)
    /\ meal = ScenarioMeal =>
         /\ OutMacros.protein = NumV(0)
         /\ OutCarbs.total = NumV(5000) /\ OutCarbs.fiber = NumV(5000)
         /\ OutFat.saturated = NumV(1000)
         /\ OutCarbs.net = NumV(0)
         /\ OutMacros.calories = IntV(290)

\* a == b on two records as _normalize_meal returns them: the macros are
\* rebuilt by every call and compare leaf by leaf; every other value of the
\* second result is the object of the first, or an int or str equal to it
PyEqNormalized(a, b) ==
  /\ DOMAIN a.d = DOMAIN b.d
  /\ \A k \in DOMAIN a.d \ {"macros"} : a.d[k] = b.d[k]
  /\ LET ma == a.d.macros.d
         mb == b.d.macros.d
     IN  /\ FEq(ma.calories, mb.calories)
         /\ FEq(ma.protein, mb.protein)
         /\ \A k \in CarbLeaves : FEq(ma.carbohydrates.d[k], mb.carbohydrates.d[k])
         /\ \A k \in FatLeaves : FEq(ma.fat.d[k], mb.fat.d[k])

\* C5: normalization is idempotent: _normalize_meal applied to its own
\* result returns a record equal to it in every field.
C5_Idempotent ==
  npc = "renormalized" =>
    /\ renormalized.ok
    /\ PyEqNormalized(renormalized.v, normalized.v)

\* C6: after _normalize_meal, servingSize qty and grams are non-negative
\* integers.
C6_ServingNonNegative ==
  Returned =>
    /\ OutServing.qty.t = "int" /\ OutServing.qty.n >= 0
    /\ OutServing.grams.t = "int" /\ OutServing.grams.n >= 0

\* no leaf of the returned macros is NaN
NoNaNOut ==
  /\ \A k \in CarbLeaves : OutCarbs[k].t # "nan"
  /\ \A k \in FatLeaves : OutFat[k].t # "nan"

\* Lemma (C3, C4, C5): the three statements hold of every returned record
\* that carries no NaN.
NormalizedWithoutNaN ==
  (Returned /\ NoNaNOut) =>
    /\ C3_NetFormula
    /\ C4_NonNegativeAndClamped
    /\ C5_Idempotent

\* the meal name of the input and of the returned record
InName == Get(meal.d, "mealName")
OutName == Get(normalized.v.d, "mealName")

\* C28: after _normalize_meal, a meal name that is present (a string) has
\* at most 4 whitespace-separated words: a name of more than 4 words is
\* replaced by its first 4 words in their original order, and a name of 4
\* words or fewer is left unchanged.
C28_NameAtMostFourWords ==
  (Returned /\ meal.t = "dict" /\ InName.t = "str") =>
    /\ OutName.t = "str"
    /\ Len(Split(OutName.s)) <= 4
    /\ Len(Split(InName.s)) > 4 =>
         Split(OutName.s) = SubSeq(Split(InName.s), 1, 4)
    /\ Len(Split(InName.s)) <= 4 => OutName = InName

\* C28 witness: a name of five words, written with blanks around it and
\* two blanks between its words, came back as its first four words
C28_Witness ==
  /\ npc = "normalized"
  /\ meal.t = "dict"
  /\ InName.t = "str"
  /\ Len(Split(InName.s)) = 5
  /\ Head(InName.s) = " "
  /\ Len(Split(OutName.s)) = 4
  /\ OutName.s # SubSeq(InName.s, 1, Len(OutName.s))

\* C28 witness: a name of four words kept its blanks
C28_WitnessKept ==
  /\ npc = "normalized"
  /\ meal.t = "dict"
  /\ InName.t = "str"
  /\ Len(Split(InName.s)) = 4
  /\ Head(InName.s) = " "
  /\ OutName = InName

(***************************************************************************)
(* Model text.  A text is a sequence of lexemes [k, c]: punctuation "p",   *)
(* whitespace "ws", the code fence "f", a bare word "w" (prose, a fence    *)
(* tag, the literals null and NaN), a string literal "s" with content c    *)
(* (free of brackets, braces and backticks) and a number literal "n".      *)
(***************************************************************************)
Lx(k, c) == [k |-> k, c |-> c]
Punct(c) == Lx("p", c)
WS == Lx("ws", " ")
NL == Lx("ws", "nl")
FENCE == Lx("f", "fence")
Word(c) == Lx("w", c)
StrLit(c) == Lx("s", c)
NumTok(c) == Lx("n", c)

\* the value of a number literal, and the literal of a number
NumOf(c) == CASE c = "0" -> 0 [] c = "1" -> 1 [] c = "2" -> 2
NumLit(i) == CASE i = 0 -> "0" [] i = 1 -> "1" [] i = 2 -> "2"

\* text.strip()
RECURSIVE TLStrip(_)
TLStrip(t) == IF t # << >> /\ Head(t).k = "ws" THEN TLStrip(Tail(t)) ELSE t

RECURSIVE TRStrip(_)
TRStrip(t) ==
  IF t # << >> /\ t[Len(t)].k = "ws" THEN TRStrip(SubSeq(t, 1, Len(t) - 1)) ELSE t

TStrip(t) == TRStrip(TLStrip(t))

(***************************************************************************)
(* json.loads: a recursive-descent parser.  Each parse returns             *)
(* [ok, v, i]: the value and the index after it.                           *)
(***************************************************************************)
Parsed(v, i) == [ok |-> TRUE, v |-> v, i |-> i]
ParseError == [ok |-> FALSE, v |-> None, i |-> 0]

RECURSIVE SkipWs(_, _)
SkipWs(t, i) == IF i <= Len(t) /\ t[i].k = "ws" THEN SkipWs(t, i + 1) ELSE i

\* whether the lexeme at i is the punctuation c
IsP(t, i, c) == i <= Len(t) /\ t[i] = Punct(c)

RECURSIVE ParseValue(_, _)
RECURSIVE ParseElems(_, _, _)
RECURSIVE ParseMembers(_, _, _)

\* the elements of an array after "[" or ",": acc holds those parsed so far
ParseElems(t, i, acc) ==
  LET e == ParseValue(t, SkipWs(t, i)) IN
  IF ~e.ok THEN ParseError ELSE
  LET j == SkipWs(t, e.i) IN
  IF IsP(t, j, ",") THEN ParseElems(t, j + 1, Append(acc, e.v))
  ELSE IF IsP(t, j, "]") THEN Parsed(List(Append(acc, e.v)), j + 1)
  ELSE ParseError

\* the members of an object after "{" or ",": a repeated key keeps its last value
ParseMembers(t, i, acc) ==
  LET k == SkipWs(t, i) IN
  IF ~(k <= Len(t) /\ t[k].k = "s") THEN ParseError ELSE
  LET c == SkipWs(t, k + 1) IN
  IF ~IsP(t, c, ":") THEN ParseError ELSE
  LET e == ParseValue(t, SkipWs(t, c + 1)) IN
  IF ~e.ok THEN ParseError ELSE
  LET j == SkipWs(t, e.i)
      acc2 == [x \in DOMAIN acc \cup {t[k].c} |-> IF x = t[k].c THEN e.v ELSE acc[x]]
  IN
  IF IsP(t, j, ",") THEN ParseMembers(t, j + 1, acc2)
  ELSE IF IsP(t, j, "}") THEN Parsed(Dict(acc2), j + 1)
  ELSE ParseError

ParseValue(t, i) ==
  IF i > Len(t) THEN ParseError
  ELSE CASE t[i].k = "s" -> Parsed(Str(<<t[i].c>>), i + 1)
         [] t[i].k = "n" -> Parsed(IntV(NumOf(t[i].c)), i + 1)
         [] t[i] = Word("null") -> Parsed(None, i + 1)
         [] t[i] = Word("NaN") -> Parsed(NaN, i + 1)
         [] t[i] = Punct("[") ->
              IF IsP(t, SkipWs(t, i + 1), "]")
              THEN Parsed(List(<< >>), SkipWs(t, i + 1) + 1)
              ELSE ParseElems(t, i + 1, << >>)
         [] t[i] = Punct("{") ->
              IF IsP(t, SkipWs(t, i + 1), "}")
              THEN Parsed(EmptyDict, SkipWs(t, i + 1) + 1)
              ELSE ParseMembers(t, i + 1, EmptyFn)
         [] OTHER -> ParseError

\* json.loads(t): one value, whitespace around it, nothing else
json_loads(t) ==
  LET r == ParseValue(t, SkipWs(t, 1)) IN
  IF r.ok /\ SkipWs(t, r.i) = Len(t) + 1 THEN Ok(r.v) ELSE Raise("JSONDecodeError")

(***************************************************************************)
(* The response extractor.  A strategy either returns a list (ret) or      *)
(* falls through to the next one; parsed is the JSON value it decoded.     *)
(***************************************************************************)
Found(items, parsed) == [ret |-> TRUE, v |-> items, parsed |-> parsed]
NotFound == [ret |-> FALSE, v |-> << >>, parsed |-> None]

RECURSIVE UnwrapFrom(_, _, _)
\* for k in keys[i:]: v = d.get(k); if isinstance(v, list): return v
\* and after the loop: return [d]
UnwrapFrom(keys, i, d) ==
  IF i > Len(keys) THEN <<Dict(d)>>
  ELSE IF Get(d, keys[i]).t = "list" THEN Get(d, keys[i]).items
  ELSE UnwrapFrom(keys, i + 1, d)

\* 1) direct parse: the wrapper loop of the mutant below reads the keys in
\* another order
direct_unwrap_reordered(d) ==
  UnwrapFrom(<<"data", "meals", "items", "array", "output">>, 1, d)

\* 1) direct parse: the wrapper loop (lines 693-698)
direct_unwrap(d) == UnwrapFrom(<<"meals", "data", "items", "array", "output">>, 1, d)

\* 2) fenced block: the wrapper loop (lines 712-716)
fenced_unwrap(d) == UnwrapFrom(<<"meals", "data", "items", "array", "output">>, 1, d)

\* 4) object slice: the wrapper loop (lines 743-747)
sliced_unwrap(d) == UnwrapFrom(<<"meals", "data", "items", "array", "output">>, 1, d)

\* the direct parse mishandled: a list is wrapped like a single object
direct_parse_wrapping(text) ==
  LET p == json_loads(text) IN
  IF ~p.ok THEN NotFound
  ELSE IF p.v.t \in {"list", "dict"} THEN Found(<<p.v>>, p.v)
  ELSE NotFound

\* 1) json.loads(text): a list as it is, a dict unwrapped
direct_parse(text) ==
  LET p == json_loads(text) IN
  IF ~p.ok THEN NotFound
  ELSE IF p.v.t = "list" THEN Found(p.v.items, p.v)
  ELSE IF p.v.t = "dict" THEN Found(direct_unwrap(p.v.d), p.v)
  ELSE NotFound

\* the case variants of the fence tag that the model writes
JsonTags == {"json", "JSON", "Json"}

\* re.search(r"```json\s*([\s\S]*?)```", text, re.IGNORECASE): the leftmost
\* fence that is followed by the tag and, later, by a closing fence; group(1)
\* runs to the first closing fence
FenceOpens(text) ==
  {i \in 1 .. Len(text) :
     /\ text[i] = FENCE
     /\ i + 1 <= Len(text) /\ text[i + 1].k = "w" /\ text[i + 1].c \in JsonTags
     /\ \E j \in i + 2 .. Len(text) : text[j] = FENCE}

Min(xs) == CHOOSE x \in xs : \A y \in xs : x <= y
Max(xs) == CHOOSE x \in xs : \A y \in xs : y <= x

code_block(text) ==
  LET i == Min(FenceOpens(text))
      j == Min({x \in i + 2 .. Len(text) : text[x] = FENCE})
  IN  SubSeq(text, i + 2, j - 1)

\* the fenced block mishandled: a list is wrapped like a single object
fenced_parse_wrapping(text) ==
  IF FenceOpens(text) = {} THEN NotFound ELSE
  LET p == json_loads(TStrip(code_block(text))) IN
  IF ~p.ok THEN NotFound
  ELSE IF p.v.t \in {"list", "dict"} THEN Found(<<p.v>>, p.v)
  ELSE NotFound

\* 2) the json-fenced block, parsed and unwrapped like the whole text
fenced_parse(text) ==
  IF FenceOpens(text) = {} THEN NotFound ELSE
  LET p == json_loads(TStrip(code_block(text))) IN
  IF ~p.ok THEN NotFound
  ELSE IF p.v.t = "list" THEN Found(p.v.items, p.v)
  ELSE IF p.v.t = "dict" THEN Found(fenced_unwrap(p.v.d), p.v)
  ELSE NotFound

\* text.find(c) and text.rfind(c) for a punctuation character, 0 for -1
Find(text, c) ==
  IF \E i \in 1 .. Len(text) : text[i] = Punct(c)
  THEN Min({i \in 1 .. Len(text) : text[i] = Punct(c)}) ELSE 0

RFind(text, c) ==
  IF \E i \in 1 .. Len(text) : text[i] = Punct(c)
  THEN Max({i \in 1 .. Len(text) : text[i] = Punct(c)}) ELSE 0

\* 3) the slice from the first "[" to the last "]": a list only
array_slice(text) ==
  LET l_idx == Find(text, "[")
      r_idx == RFind(text, "]")
  IN
  IF ~(l_idx # 0 /\ r_idx # 0 /\ r_idx > l_idx) THEN NotFound ELSE
  LET p == json_loads(SubSeq(text, l_idx, r_idx)) IN
  IF p.ok /\ p.v.t = "list" THEN Found(p.v.items, p.v) ELSE NotFound

\* 4) the slice from the first "{" to the last "}"
object_slice(text) ==
  LET l_idx == Find(text, "{")
      r_idx == RFind(text, "}")
  IN
  IF ~(l_idx # 0 /\ r_idx # 0 /\ r_idx > l_idx) THEN NotFound ELSE
  LET p == json_loads(SubSeq(text, l_idx, r_idx)) IN
  IF ~p.ok THEN NotFound
  ELSE IF p.v.t = "list" THEN Found(p.v.items, p.v)
  ELSE IF p.v.t = "dict" THEN Found(sliced_unwrap(p.v.d), p.v)
  ELSE NotFound

\* the length of the preview in the error detail
SnippetLen == 300

\* the result of a call: a list v returned by strategy via from the decoded
\* value parsed, or an HTTPException with its status and detail
Extracted(via, f) ==
  [ok |-> TRUE, v |-> f.v, via |-> via, parsed |-> f.parsed, status |-> 200,
   detail |-> "", snippet |-> << >>]

\* the failure swallowed: an empty list is returned instead of the raise
ExtractionSwallowed(detail, snippet) ==
  [ok |-> TRUE, v |-> << >>, via |-> 0, parsed |-> None, status |-> 200,
   detail |-> detail, snippet |-> snippet]

ExtractionError(detail, snippet) ==
  [ok |-> FALSE, v |-> << >>, via |-> 0, parsed |-> None, status |-> 502,
   detail |-> detail, snippet |-> snippet]

\* the extractor with the two slices in the other order
extract_object_slice_first(raw) ==
  LET text == TStrip(raw) IN
  IF text = << >> THEN ExtractionError("Empty content from OpenAI", << >>)
  ELSE IF direct_parse(text).ret THEN Extracted(1, direct_parse(text))
  ELSE IF fenced_parse(text).ret THEN Extracted(2, fenced_parse(text))
  ELSE IF object_slice(text).ret THEN Extracted(4, object_slice(text))
  ELSE IF array_slice(text).ret THEN Extracted(3, array_slice(text))
  ELSE ExtractionError("Malformed or non-JSON content from OpenAI",
                       SubSeq(text, 1, IF Len(text) < SnippetLen THEN Len(text)
                                       ELSE SnippetLen))

\* _extract_meals_from_content(content)
extract_meals_from_content(raw) ==
  LET text == TStrip(raw) IN
  IF text = << >> THEN ExtractionError("Empty content from OpenAI", << >>)
  ELSE IF direct_parse(text).ret THEN Extracted(1, direct_parse(text))
  ELSE IF fenced_parse(text).ret THEN Extracted(2, fenced_parse(text))
  ELSE IF array_slice(text).ret THEN Extracted(3, array_slice(text))
  ELSE IF object_slice(text).ret THEN Extracted(4, object_slice(text))
  ELSE ExtractionError("Malformed or non-JSON content from OpenAI",
                       SubSeq(text, 1, IF Len(text) < SnippetLen THEN Len(text)
                                       ELSE SnippetLen))

(***************************************************************************)
(* Inputs of the extractor: JSON values written out as text (json.dumps),  *)
(* bare, fenced, inside prose or cut short, and every short text.          *)
(***************************************************************************)
RECURSIVE KeySeq(_)
\* the keys of a dict in the order they are written
KeySeq(keys) ==
  IF keys = {} THEN << >>
  ELSE LET k == CHOOSE x \in keys : TRUE IN <<k>> \o KeySeq(keys \ {k})

RECURSIVE Dumps(_, _)
RECURSIVE DumpItems(_, _)
RECURSIVE DumpMembers(_, _, _)

\* "," or ", "
Comma(sp) == IF sp THEN <<Punct(","), WS>> ELSE <<Punct(",")>>

DumpItems(items, sp) ==
  IF items = << >> THEN << >>
  ELSE IF Len(items) = 1 THEN Dumps(items[1], sp)
  ELSE Dumps(items[1], sp) \o Comma(sp) \o DumpItems(Tail(items), sp)

DumpMembers(d, keys, sp) ==
  IF keys = << >> THEN << >>
  ELSE LET m == <<StrLit(keys[1]), Punct(":")>> \o (IF sp THEN <<WS>> ELSE << >>)
                \o Dumps(d[keys[1]], sp)
       IN  IF Len(keys) = 1 THEN m ELSE m \o Comma(sp) \o DumpMembers(d, Tail(keys), sp)

\* json.dumps(v), with spaces after "," and ":" when sp
Dumps(v, sp) ==
  CASE v.t = "none" -> <<Word("null")>>
    [] v.t = "int" -> <<NumTok(NumLit(v.n))>>
    [] v.t = "nan" -> <<Word("NaN")>>
    [] v.t = "str" -> <<StrLit(v.s[1])>>
    [] v.t = "list" -> <<Punct("[")>> \o DumpItems(v.items, sp) \o <<Punct("]")>>
    [] v.t = "dict" ->
         <<Punct("{")>> \o DumpMembers(v.d, KeySeq(DOMAIN v.d), sp) \o <<Punct("}")>>

SeqsUpTo(elems, n) == UNION {[1 .. k -> elems] : k \in 0 .. n}

\* meal records as the upstream model may write them
Records ==
  {EmptyDict, Dict([k |-> IntV(1)]), Dict([k |-> IntV(2)]),
   Dict([mealName |-> Str(<<"v">>), micronutrients |-> List(<< >>)])}

\* array elements: records and values that are no mapping
Elements == Records \cup {IntV(1), None}

Arrays == {List(q) : q \in SeqsUpTo(Elements, MaxItems)}

RecordArrays == {List(q) : q \in SeqsUpTo(Records, MaxItems)}

WrapKeys == {"meals", "data", "items", "array", "output", "k"}

WrapVals ==
  {List(<<Dict([k |-> IntV(1)])>>), List(<<Dict([k |-> IntV(2)])>>), List(<< >>),
   IntV(1), Dict([k |-> IntV(1)]), None}

\* objects with one or two keys, wrapper keys among them
Wrappers ==
  {Dict(f) : f \in UNION {[keys -> WrapVals] :
                           keys \in {ks \in SUBSET WrapKeys : Cardinality(ks) \in {1, 2}}}}

JsonValues == Arrays \cup Wrappers \cup Records \cup {IntV(1), None, Str(<<"v">>)}

\* A inside a triple-backtick fence with the given tag
Fenced(tag, body) == <<FENCE, Word(tag), NL>> \o body \o <<NL, FENCE>>

Prose == <<Word("x"), WS>>

\* the ways a value reaches the extractor
TextsOf(v) ==
  {Dumps(v, FALSE),
   <<WS>> \o Dumps(v, TRUE) \o <<NL>>,
   Prose \o Dumps(v, FALSE) \o <<WS, Word("x")>>,
   Prose \o <<Punct("["), NumTok("1"), Punct("]"), WS>> \o Dumps(v, FALSE),
   SubSeq(Dumps(v, FALSE), 1, Len(Dumps(v, FALSE)) - 1),
   Fenced("x", Dumps(v, FALSE)),
   <<FENCE, NL>> \o Dumps(v, FALSE) \o <<NL, FENCE>>}
  \cup {Fenced(tag, Dumps(v, sp)) : tag \in JsonTags, sp \in BOOLEAN}
  \cup {Prose \o Fenced(tag, Dumps(v, FALSE)) \o <<WS, Word("x")>> : tag \in JsonTags}

RawLexemes ==
  {Punct("["), Punct("]"), Punct("{"), Punct("}"), Punct(","), Punct(":"), WS, FENCE,
   Word("json"), StrLit("k"), NumTok("1")}

\* no two bare words or numbers touch: together they would be one lexeme
WellLexed(t) ==
  \A i \in 1 .. Len(t) - 1 : ~(t[i].k \in {"w", "n"} /\ t[i + 1].k \in {"w", "n"})

RawTexts == {t \in SeqsUpTo(RawLexemes, MaxRaw) : WellLexed(t)}

ContentInputs == (UNION {TextsOf(v) : v \in JsonValues}) \cup RawTexts

(***************************************************************************)
(* The extractor applied to one text.                                      *)
(***************************************************************************)
ExtractInit ==
  /\ content \in ContentInputs
  /\ extracted = ExtractionError("", << >>)
  /\ epc = "input"
  /\ NormIdle
  /\ CacheIdle
  /\ ServeIdle

\* what an extractor call leaves alone
ExtractFrame == UNCHANGED <<nvars, cvars, svars>>

\* meals = _extract_meals_from_content(content)
Extract ==
  /\ epc = "input"
  /\ extracted' = extract_meals_from_content(content)
  /\ epc' = IF extracted'.ok THEN "returned" ELSE "raised"
  /\ UNCHANGED content
  /\ ExtractFrame

ExtractNext == Extract

SpecNorm == NormInit /\ [][NormNext]_vars

SpecExtract == ExtractInit /\ [][ExtractNext]_vars

(***************************************************************************)
(* Claims about the extractor (under SpecExtract).                         *)
(***************************************************************************)
\* the ways a whole text is one JSON array: compact, or spaced and with
\* whitespace around it
PlainTexts(A) == {Dumps(A, FALSE), <<WS>> \o Dumps(A, TRUE) \o <<NL>>}

\* an array of two different records
TwoRecords ==
  List(<<Dict([mealName |-> Str(<<"v">>), micronutrients |-> List(<< >>)]),
         Dict([k |-> IntV(1)])>>)

\* C7: whenever _extract_meals_from_content returns, every element of the
\* returned sequence is a mapping.
C7_ElementsAreMappings ==
  epc = "returned" => \A i \in 1 .. Len(extracted.v) : extracted.v[i].t = "dict"

\* the whole-text forms of every array of records
PlainTextsOf == [A \in RecordArrays |-> PlainTexts(A)]

\* C8: a text that is a well-formed JSON array of mappings, possibly with
\* whitespace around it, extracts to that array, element for element and in
\* order.
C8_RoundTrip ==
  epc # "input" =>
    \A A \in RecordArrays :
      content \in PlainTextsOf[A] => extracted.ok /\ extracted.v = A.items

\* C8 witness: the spaced text of two different records came back as they were
C8_Witness ==
  /\ epc = "returned"
  /\ content = <<WS>> \o Dumps(TwoRecords, TRUE) \o <<NL>>
  /\ extracted.v = TwoRecords.items

\* the texts of every array of records, compact or spaced, inside a fence
\* tagged json in any letter case, each with its unfenced text
FencedTextsOf ==
  [A \in RecordArrays |->
     {[fenced |-> Fenced(tag, Dumps(A, sp)), unfenced |-> Dumps(A, sp)] :
        tag \in JsonTags, sp \in BOOLEAN}]

\* C9: an array of records inside a fence tagged json, in any letter case,
\* extracts to the same sequence as the array's unfenced text.
C9_FencedAsUnfenced ==
  epc # "input" =>
    \A A \in RecordArrays : \A f \in FencedTextsOf[A] :
      content = f.fenced =>
        /\ extracted.ok
        /\ extract_meals_from_content(f.unfenced).ok
        /\ extracted.v = extract_meals_from_content(f.unfenced).v

\* C9 witness: two records in a fence tagged JSON, found by the fence strategy
C9_Witness ==
  /\ epc = "returned"
  /\ content = Fenced("JSON", Dumps(TwoRecords, FALSE))
  /\ extracted.via = 2
  /\ extracted.v = TwoRecords.items

\* the wrapper keys in their priority order
WrapperPriority == <<"meals", "data", "items", "array", "output">>

\* what the claim expects of a mapping: the sequence under the first wrapper
\* key that holds one, else the mapping alone
ExpectedOfMapping(d) ==
  LET hits == {i \in 1 .. Len(WrapperPriority) :
                 Get(d, WrapperPriority[i]).t = "list"}
  IN  IF hits = {} THEN <<Dict(d)>>
      ELSE d[WrapperPriority[Min(hits)]].items

\* C10: when the JSON a strategy decoded is a mapping, the result is the
\* sequence under the first of meals, data, items, array, output that holds
\* a sequence, else the mapping alone in a one-element sequence; alike for
\* the direct parse, the fenced block and the object slice.
C10_MappingUnwrapped ==
  /\ (epc = "returned" /\ extracted.parsed.t = "dict") =>
       /\ extracted.via \in {1, 2, 4}
       /\ extracted.v = ExpectedOfMapping(extracted.parsed.d)
  /\ (epc # "input" /\ json_loads(TStrip(content)).ok
        /\ json_loads(TStrip(content)).v.t = "dict") =>
       /\ extracted.ok /\ extracted.via = 1
       /\ extracted.v = ExpectedOfMapping(json_loads(TStrip(content)).v.d)

\* C10 witness: the object slice decoded a mapping with lists under both
\* data and meals, and the result is the list under meals
C10_Witness ==
  /\ epc = "returned"
  /\ extracted.via = 4
  /\ extracted.parsed.t = "dict"
  /\ Get(extracted.parsed.d, "meals").t = "list"
  /\ Get(extracted.parsed.d, "data").t = "list"
  /\ Get(extracted.parsed.d, "meals") # Get(extracted.parsed.d, "data")
  /\ extracted.v = extracted.parsed.d["meals"].items


\* the kind of JSON value a text decodes to, "error" when it is not JSON
DecodesTo(t) == IF json_loads(t).ok THEN json_loads(t).v.t ELSE "error"

\* the pieces of a text the four strategies try to decode: the whole text,
\* the first json-fenced block, the span from the first "[" to the last "]"
\* and the span from the first "{" to the last "}"
Candidates(text) ==
  {text}
  \cup (IF FenceOpens(text) = {} THEN {} ELSE {TStrip(code_block(text))})
  \cup (IF Find(text, "[") # 0 /\ RFind(text, "]") > Find(text, "[")
        THEN {SubSeq(text, Find(text, "["), RFind(text, "]"))} ELSE {})
  \cup (IF Find(text, "{") # 0 /\ RFind(text, "}") > Find(text, "{")
        THEN {SubSeq(text, Find(text, "{"), RFind(text, "}"))} ELSE {})

\* C11: extraction of a text that is empty after trimming, or in which no
\* strategy finds a JSON array or object, fails with the extraction error
\* (status 502) and returns no sequence.
C11_FailsWithoutJson ==
  epc # "input" =>
    LET text == TStrip(content) IN
    /\ text = << >> =>
         /\ epc = "raised" /\ ~extracted.ok /\ extracted.status = 502
         /\ extracted.detail = "Empty content from OpenAI"
         /\ extracted.v = << >>
    /\ (text # << >>
          /\ \A t \in Candidates(text) : DecodesTo(t) \notin {"list", "dict"}) =>
         /\ epc = "raised" /\ ~extracted.ok /\ extracted.status = 502
         /\ extracted.detail = "Malformed or non-JSON content from OpenAI"
         /\ extracted.v = << >>

\* C11 witness: a text with an opening bracket and a closing one after it,
\* whose span is not JSON, was refused
C11_Witness ==
  /\ epc = "raised"
  /\ Find(TStrip(content), "[") # 0
  /\ RFind(TStrip(content), "]") > Find(TStrip(content), "[")
  /\ extracted.status = 502

\* C11 witness for the empty case: a text of whitespace only was refused
C11_WitnessEmpty ==
  /\ epc = "raised" /\ content # << >> /\ TStrip(content) = << >>

\* the piece of the text that strategy k decodes, if there is one: 1 the
\* whole text, 2 the first json-fenced block, 3 the span from the first "["
\* to the last "]", 4 the span from the first "{" to the last "}"
StrategyPiece(text, k) ==
  CASE k = 1 -> {text}
    [] k = 2 -> IF FenceOpens(text) = {} THEN {} ELSE {TStrip(code_block(text))}
    [] k = 3 -> IF Find(text, "[") # 0 /\ RFind(text, "]") > Find(text, "[")
                THEN {SubSeq(text, Find(text, "["), RFind(text, "]"))} ELSE {}
    [] k = 4 -> IF Find(text, "{") # 0 /\ RFind(text, "}") > Find(text, "{")
                THEN {SubSeq(text, Find(text, "{"), RFind(text, "}"))} ELSE {}

\* the kinds of JSON value strategy k accepts: the array slice a sequence
\* only, the others a sequence or a mapping
Accepted(k) == IF k = 3 THEN {"list"} ELSE {"list", "dict"}

\* strategy k succeeds on the text
Succeeds(text, k) == \E t \in StrategyPiece(text, k) : DecodesTo(t) \in Accepted(k)

\* C25: extraction tries direct parse, json-fenced block, "[".."]" slice and
\* "{".."}" slice in this order and returns the result of the first one
\* that succeeds: the strategy that produced the result succeeded, none
\* before it did (none failed to parse or decoded something it does not
\* accept), the array slice yields a sequence only, and extraction fails
\* only when no strategy succeeds.
C25_FirstSuccessWins ==
  (epc # "input" /\ TStrip(content) # << >>) =>
    /\ extracted.ok =>
         /\ epc = "returned"
         /\ extracted.via \in 1 .. 4
         /\ Succeeds(TStrip(content), extracted.via)
         /\ \A j \in 1 .. extracted.via - 1 : ~Succeeds(TStrip(content), j)
         /\ \A t \in StrategyPiece(TStrip(content), extracted.via) :
              extracted.parsed = json_loads(t).v
         /\ extracted.parsed.t = "list" => extracted.v = extracted.parsed.items
         /\ extracted.via = 3 => extracted.parsed.t = "list"
    /\ ~extracted.ok =>
         /\ epc = "raised"
         /\ \A k \in 1 .. 4 : ~Succeeds(TStrip(content), k)

\* C25 witness: the array slice gave the result of a text on which the
\* object slice would have succeeded too
C25_Witness ==
  /\ epc = "returned"
  /\ extracted.via = 3
  /\ Succeeds(TStrip(content), 4)
  /\ ~Succeeds(TStrip(content), 1)
  /\ ~Succeeds(TStrip(content), 2)

\* C25 witness: the object slice was reached after the three strategies
\* before it had failed
C25_WitnessLast ==
  /\ epc = "returned"
  /\ extracted.via = 4
  /\ StrategyPiece(TStrip(content), 3) # {}

\* C26: from prose around exactly one JSON object that is a single meal
\* record (the text is not JSON as a whole, has no json fence and the
\* object no wrapper key), extraction returns the one-element sequence of
\* that object, also when the object has array-valued fields such as an
\* empty micronutrients list.
C26_ProseAroundObject ==
  \A r \in Records :
    (epc # "input" /\ content = Prose \o Dumps(r, FALSE) \o <<WS, Word("x")>>) =>
      /\ epc = "returned"
      /\ extracted.ok
      /\ extracted.v = <<r>>


(***************************************************************************)
(* The TTL cache (lines 76-108).  _cache_store is a function from keys to  *)
(* values; _cache_meta is the sequence of its (key, timestamp) items in    *)
(* dict order, the order sorted() keeps among equal timestamps.            *)
(***************************************************************************)
\* time.time() takes the values 0 .. MaxTime
MaxTime == 2
\* the calls use MaxKeys different keys
MaxKeys == 2

CacheKeys == {<<"key", i>> : i \in 1 .. MaxKeys}
CacheValues ==
  {List(<< >>), List(<<Dict([mealName |-> Str(<<"v">>)])>>)}
\* the configured time-to-live and capacity, int(os.getenv(...))
TTLs == {0, 1}
Capacities == {0, 1, 2}

\* the position of key in _cache_meta, 0 when it is not there
MetaIndex(meta, key) ==
  IF \E i \in DOMAIN meta : meta[i].k = key
  THEN CHOOSE i \in DOMAIN meta : meta[i].k = key
  ELSE 0

MetaKeys(meta) == {meta[i].k : i \in DOMAIN meta}

\* _cache_store.get(key)
StoreGet(store, key) == IF key \in DOMAIN store THEN store[key] ELSE None

\* _cache_store[key] = value
StorePut(store, key, value) ==
  [k \in DOMAIN store \cup {key} |-> IF k = key THEN value ELSE store[k]]

\* _cache_store.pop(k, None) for every k of ks
StorePop(store, ks) == [k \in DOMAIN store \ ks |-> store[k]]

\* _cache_meta[key] = ts: an existing key keeps its place in the dict
MetaPut(meta, key, ts) ==
  IF MetaIndex(meta, key) = 0 THEN Append(meta, [k |-> key, ts |-> ts])
  ELSE [meta EXCEPT ![MetaIndex(meta, key)] = [k |-> key, ts |-> ts]]

\* _cache_meta.pop(k, None) for every k of ks
MetaPop(meta, ks) == SelectSeq(meta, LAMBDA e : e.k \notin ks)

\* the lookup with the expiry test made inclusive
cache_get_inclusive(store, meta, key, t) ==
  LET i == MetaIndex(meta, key) IN
  IF i = 0 THEN [store |-> store, meta |-> meta, ret |-> None]
  ELSE IF t - meta[i].ts >= CACHE_TTL_SECONDS
  THEN [store |-> StorePop(store, {key}), meta |-> MetaPop(meta, {key}),
        ret |-> None]
  ELSE [store |-> store, meta |-> meta, ret |-> StoreGet(store, key)]

\* _cache_get(key) at time t: the cache after the call and what it returns
cache_get(store, meta, key, t) ==
  LET i == MetaIndex(meta, key) IN
  IF i = 0 THEN [store |-> store, meta |-> meta, ret |-> None]
  ELSE IF t - meta[i].ts > CACHE_TTL_SECONDS
  THEN [store |-> StorePop(store, {key}), meta |-> MetaPop(meta, {key}),
        ret |-> None]
  ELSE [store |-> store, meta |-> meta, ret |-> StoreGet(store, key)]

\* the eviction taking the most recently stamped entries
Newest(meta, n) ==
  {meta[i].k : i \in {i \in DOMAIN meta :
     Cardinality({j \in DOMAIN meta :
        \/ meta[j].ts > meta[i].ts
        \/ meta[j].ts = meta[i].ts /\ j < i}) < n}}

\* sorted(_cache_meta.items(), key=lambda kv: kv[1])[:n], as the set of its
\* keys: the sort is stable, so item i comes before item j when its
\* timestamp is smaller, or equal and i is earlier in the dict
Oldest(meta, n) ==
  {meta[i].k : i \in {i \in DOMAIN meta :
     Cardinality({j \in DOMAIN meta :
        \/ meta[j].ts < meta[i].ts
        \/ meta[j].ts = meta[i].ts /\ j < i}) < n}}

\* the store that evicts only when it is more than one entry over capacity
cache_set_one_over(store, meta, key, value, t) ==
  LET store1 == StorePut(store, key, value)
      meta1 == MetaPut(meta, key, t)
  IN
  IF Cardinality(DOMAIN store1) > CACHE_MAX_ITEMS + 1
  THEN LET to_evict == IF 1 >= CACHE_MAX_ITEMS \div 10 THEN 1
                       ELSE CACHE_MAX_ITEMS \div 10
           oldest == Oldest(meta1, to_evict)
       IN  [store |-> StorePop(store1, oldest), meta |-> MetaPop(meta1, oldest),
            evicted |-> oldest]
  ELSE [store |-> store1, meta |-> meta1, evicted |-> {}]

\* _cache_set(key, value) at time t: the cache after the call and the keys
\* it evicted
cache_set(store, meta, key, value, t) ==
  LET store1 == StorePut(store, key, value)
      meta1 == MetaPut(meta, key, t)
  IN
  IF Cardinality(DOMAIN store1) > CACHE_MAX_ITEMS
  THEN LET to_evict == IF 1 >= CACHE_MAX_ITEMS \div 10 THEN 1
                       ELSE CACHE_MAX_ITEMS \div 10
           oldest == Oldest(meta1, to_evict)
       IN  [store |-> StorePop(store1, oldest), meta |-> MetaPop(meta1, oldest),
            evicted |-> oldest]
  ELSE [store |-> store1, meta |-> meta1, evicted |-> {}]

(***************************************************************************)
(* The cache under any sequence of _cache_set and _cache_get calls, the    *)
(* clock advancing between calls.                                          *)
(***************************************************************************)
CacheInit ==
  /\ cache_store = EmptyFn
  /\ cache_meta = << >>
  /\ now = 0
  /\ CACHE_TTL_SECONDS \in TTLs
  /\ CACHE_MAX_ITEMS \in Capacities
  /\ cop = NoCacheCall
  /\ NormIdle
  /\ ExtractIdle
  /\ ServeIdle

\* what a cache call leaves alone
CacheFrame == UNCHANGED <<nvars, evars, svars>>

\* the call before this one
LastCall == [op |-> cop.op, key |-> cop.key, value |-> cop.value]

\* _cache_set(key, value)
CacheSet ==
  \E key \in CacheKeys, value \in CacheValues :
    LET r == cache_set(cache_store, cache_meta, key, value, now) IN
    /\ cache_store' = r.store
    /\ cache_meta' = r.meta
    /\ cop' = [op |-> "set", key |-> key, value |-> value, ret |-> None,
               store |-> cache_store, meta |-> cache_meta,
               evicted |-> r.evicted, after |-> LastCall]
    /\ UNCHANGED <<now, CACHE_TTL_SECONDS, CACHE_MAX_ITEMS>>
    /\ CacheFrame

\* _cache_get(key)
CacheGet ==
  \E key \in CacheKeys :
    LET r == cache_get(cache_store, cache_meta, key, now) IN
    /\ cache_store' = r.store
    /\ cache_meta' = r.meta
    /\ cop' = [op |-> "get", key |-> key, value |-> None, ret |-> r.ret,
               store |-> cache_store, meta |-> cache_meta,
               evicted |-> {}, after |-> LastCall]
    /\ UNCHANGED <<now, CACHE_TTL_SECONDS, CACHE_MAX_ITEMS>>
    /\ CacheFrame

\* a second passes between two calls
Tick ==
  /\ now < MaxTime
  /\ now' = now + 1
  /\ cop' = [NoCacheCall EXCEPT !.op = "tick"]
  /\ UNCHANGED <<cache_store, cache_meta, CACHE_TTL_SECONDS, CACHE_MAX_ITEMS>>
  /\ CacheFrame

CacheNext == CacheSet \/ CacheGet \/ Tick

SpecCache == CacheInit /\ [][CacheNext]_vars


(***************************************************************************)
(* Claims about the cache (under SpecCache).                               *)
(***************************************************************************)
\* the age the looked-up entry had when _cache_get was called
AgeAtGet == now - cop.meta[MetaIndex(cop.meta, cop.key)].ts

\* C12: for every key, value, TTL and capacity, _cache_set(key, value)
\* followed at once by _cache_get(key), no call and no time in between,
\* returns the value just stored.
C12_SetThenGet ==
  (cop.op = "get" /\ cop.after.op = "set" /\ cop.after.key = cop.key) =>
    cop.ret = cop.after.value

\* C13: _cache_get(key) of an entry older than CACHE_TTL_SECONDS returns
\* None and removes the entry from the value store and from the timestamp
\* map; an entry that is not older is returned and kept.
C13_ExpiryOnGet ==
  (cop.op = "get" /\ cop.key \in MetaKeys(cop.meta)) =>
    IF AgeAtGet > CACHE_TTL_SECONDS
    THEN /\ cop.ret = None
         /\ cop.key \notin DOMAIN cache_store
         /\ cop.key \notin MetaKeys(cache_meta)
         /\ cache_store = StorePop(cop.store, {cop.key})
    ELSE /\ cop.ret = cop.store[cop.key]
         /\ cache_store = cop.store
         /\ cache_meta = cop.meta

\* C13 witness: a lookup found an entry older than the TTL and removed it,
\* while another entry stayed
C13_Witness ==
  /\ cop.op = "get"
  /\ cop.key \in MetaKeys(cop.meta)
  /\ AgeAtGet > CACHE_TTL_SECONDS
  /\ cop.key \notin MetaKeys(cache_meta)
  /\ cache_meta # << >>

\* C14: a _cache_set that makes the number of entries exceed
\* CACHE_MAX_ITEMS evicts exactly max(1, CACHE_MAX_ITEMS // 10) entries, at
\* least one, and never the entry it has just inserted.
C14_EvictionBounded ==
  (cop.op = "set"
     /\ Cardinality(DOMAIN cop.store \cup {cop.key}) > CACHE_MAX_ITEMS) =>
    /\ Cardinality(cop.evicted) >= 1
    /\ Cardinality(cop.evicted) =
         (IF 1 >= CACHE_MAX_ITEMS \div 10 THEN 1 ELSE CACHE_MAX_ITEMS \div 10)
    /\ cop.key \notin cop.evicted

\* the timestamp of key in a timestamp map that holds it
TsOf(meta, key) == meta[MetaIndex(meta, key)].ts

\* the timestamp map of a _cache_set call after its two assignments and
\* before its eviction
StampedMeta == MetaPut(cop.meta, cop.key, now)

C29_SizeBound ==
  (CACHE_MAX_ITEMS >= 1 /\ cop.op = "set") =>
    /\ Cardinality(DOMAIN cache_store) <= CACHE_MAX_ITEMS
    /\ DOMAIN cache_store = MetaKeys(cache_meta)
    /\ Len(cache_meta) = Cardinality(MetaKeys(cache_meta))

\* C29 witness: a _cache_set on a full cache, after a lookup, left the
\* cache full and not over capacity
C29_Witness ==
  /\ CACHE_MAX_ITEMS >= 1
  /\ cop.op = "set"
  /\ cop.after.op = "get"
  /\ Cardinality(DOMAIN cop.store) = CACHE_MAX_ITEMS
  /\ cop.key \notin DOMAIN cop.store
  /\ Cardinality(DOMAIN cache_store) = CACHE_MAX_ITEMS


(***************************************************************************)
(* The upstream caller and the endpoints (lines 896-1192).  A request is   *)
(* served in steps that end at requests.post: the step that receives it    *)
(* runs up to the first call, and every call either fails in transport or  *)
(* gets an HTTP response.                                                  *)
(***************************************************************************)
\* the service receives up to MaxRequests requests
MaxRequests == 2

Endpoints ==
  {"/analyze-image", "/analyze-image-upload", "/analyze-transcription",
   "/suggest-meal"}

\* the analysis function an endpoint calls
FlowOf(endpoint) ==
  CASE endpoint = "/analyze-image" -> "image"
    [] endpoint = "/analyze-image-upload" -> "image"
    [] endpoint = "/analyze-transcription" -> "transcription"
    [] endpoint = "/suggest-meal" -> "suggest"

\* the argument of the analysis function: an image URL, the data URL made
\* of an uploaded file, a transcription (a text, with or without blanks
\* around it), the prompt rendered from today's meals and the goal
InputsOf(endpoint) ==
  CASE endpoint = "/analyze-image" -> {<<"url", FALSE>>}
    [] endpoint = "/analyze-image-upload" -> {<<"data", FALSE>>}
    [] endpoint = "/analyze-transcription" ->
         {<<"text", padded>> : padded \in BOOLEAN}
    [] endpoint = "/suggest-meal" -> {<<"prompt", FALSE>>}

\* re.sub(r"\s+", " ", transcription.strip()): the blanks around are gone
trans_norm(input) == <<input[1], FALSE>>

\* cache_key of a request
CacheKey(flow, input) ==
  IF flow = "transcription" THEN <<flow, trans_norm(input)>> ELSE <<flow, input>>

\* whether the flow reads and writes the cache
UsesCache(flow) == flow # "suggest" \/ SUGGEST_MEAL_DETERMINISTIC

\* the hit test misread as truthiness: if cached:
is_hit_truthy(cached) == cached # None /\ cached.items # << >>

\* if cached is not None
is_hit(cached) == cached # None

\* enumerate((0.0, 1.0, 2.0), start=1)
RetryDelays == <<0, 1, 2>>

Text(t) == [NoMore EXCEPT !.kind = "text", !.text = t]
\* str(e) of an exception inside a detail
Inner(e) ==
  [kind |-> "exc", text |-> e.more.text, type |-> e.type,
   status |-> e.status, msg |-> e.msg]
HTTPExc(status, msg, more) ==
  [type |-> "HTTPException", status |-> status, msg |-> msg, more |-> more]
OtherExc(type) == [type |-> type, status |-> 0, msg |-> "", more |-> NoMore]

Success(items) == [ok |-> TRUE, v |-> Obj(0, items), exc |-> NoExc, why |-> "none"]
Fail(why, exc) == [ok |-> FALSE, v |-> NoObj, exc |-> exc, why |-> why]

RECURSIVE normalize_from(_, _, _)
RECURSIVE normalize_next(_, _, _, _)
\* the list comprehension from element i on: acc holds the records made
normalize_from(meals, i, acc) ==
  IF i > Len(meals) THEN Ok(acc)
  ELSE normalize_next(meals, i, acc, normalize_meal(meals[i]))

\* a comprehension that leaves out the element _normalize_meal failed on
normalize_next_skipping(meals, i, acc, n) ==
  IF n.ok THEN normalize_from(meals, i + 1, Append(acc, n.v))
  ELSE normalize_from(meals, i + 1, acc)

\* n is what _normalize_meal made of element i: its exception ends the
\* comprehension
normalize_next(meals, i, acc, n) ==
  IF n.ok THEN normalize_from(meals, i + 1, Append(acc, n.v))
  ELSE Raise(n.err)

\* _normalize_meals(meals): [_normalize_meal(meal) for meal in meals]
normalize_meals(meals) == normalize_from(meals, 1, << >>)

\* n is what _normalize_meals returned or raised
after_normalize(n) ==
  IF n.ok THEN Success(n.v) ELSE Fail("normalization", OtherExc(n.err))

\* e is what _extract_meals_from_content returned or raised
after_extract(e) ==
  IF ~e.ok
  THEN Fail("extraction", HTTPExc(e.status, e.detail, Text(e.snippet)))
  ELSE after_normalize(normalize_meals(e.v))

\* meals = _extract_meals_from_content(content); _normalize_meals(meals)
process_content(text) == after_extract(extract_meals_from_content(text))

\* requests.Response.ok
resp_ok(r) == r.status < 400

\* what an analysis function raises on a response before it reads the
\* content, or the go-ahead: a non-success status (HTTPException with the
\* upstream status in analyze_image, the HTTPError of raise_for_status in
\* the other two), a payload without choices[0].message.content
\* (HTTPException 502 in analyze_image, KeyError in the other two), a
\* content that is None (HTTPException 400)
response_checks(flow, r) ==
  IF ~resp_ok(r)
  THEN Fail("status",
            IF flow = "image"
            THEN HTTPExc(r.status, "OpenAI API request failed", NoMore)
            ELSE OtherExc("HTTPError"))
  ELSE IF r.kind = "malformed"
  THEN Fail("payload",
            IF flow = "image"
            THEN HTTPExc(502, "Invalid response from OpenAI", NoMore)
            ELSE OtherExc("KeyError"))
  ELSE IF r.kind = "refusal"
  THEN Fail("refusal", HTTPExc(400, "API refused to process", NoMore))
  ELSE Success(<< >>)

\* analyze_image has no except clause around lines 940-960
image_wrap(f) == f

\* except Exception as e of analyze_transcription (lines 1010-1012)
transcription_wrap(f) ==
  IF f.ok THEN f
  ELSE Fail(f.why, HTTPExc(500, "API error or invalid response", Inner(f.exc)))

\* the except clauses of suggest_meal (lines 1148-1153): the HTTPError of
\* raise_for_status is a RequestException, everything else is wrapped
suggest_wrap(f) ==
  IF f.ok THEN f
  ELSE IF f.exc.type = "HTTPError"
  THEN Fail(f.why, HTTPExc(502, "Upstream API request failed", NoMore))
  ELSE Fail(f.why, HTTPExc(500, "Error generating meal suggestion",
                           Inner(f.exc)))

\* an analysis function from the response on: the checks, the extraction
\* and the normalization of the content, inside the flow's except clauses
flow_wrap(flow, f) ==
  CASE flow = "image" -> image_wrap(f)
    [] flow = "transcription" -> transcription_wrap(f)
    [] flow = "suggest" -> suggest_wrap(f)

\* c is what the checks raised, or the go-ahead to read the content
after_checks(c, r) == IF c.ok THEN process_content(r.content) ELSE c

outcome(flow, r) == flow_wrap(flow, after_checks(response_checks(flow, r), r))

\* the head of the detail an endpoint puts before str(e)
EndpointMsg(endpoint) ==
  CASE endpoint = "/analyze-image" -> "Error processing image"
    [] endpoint = "/analyze-image-upload" -> "Error processing uploaded image"
    [] endpoint = "/analyze-transcription" -> "Error processing transcription"
    [] endpoint = "/suggest-meal" -> "Error generating meal suggestion"

\* an endpoint that lets the HTTPException of its analysis function through
\* with its own status
respond_passing_status(endpoint, res) ==
  IF res.ok
  THEN [status |-> 200, body |-> res.v.items, msg |-> "", inner |-> NoExc]
  ELSE [status |-> IF res.exc.type = "HTTPException" THEN res.exc.status
                   ELSE 500,
        body |-> << >>, msg |-> EndpointMsg(endpoint), inner |-> res.exc]

\* the endpoint around the analysis function: return meals, or except
\* Exception as e: raise HTTPException(status_code=500, ...)
respond(endpoint, res) ==
  IF res.ok
  THEN [status |-> 200, body |-> res.v.items, msg |-> "", inner |-> NoExc]
  ELSE [status |-> 500, body |-> << >>, msg |-> EndpointMsg(endpoint),
        inner |-> res.exc]


\* what the model answers with: an array of one record, an empty array,
\* prose without JSON, an array whose element is not a record, an array of
\* two records, an array of a record and an element that is not a record
ModelTexts ==
  {Dumps(List(<<Dict([k |-> IntV(1)])>>), FALSE), Dumps(List(<< >>), FALSE),
   Prose, Dumps(List(<<IntV(1)>>), FALSE),
   Dumps(List(<<Dict([k |-> IntV(1)]), Dict([k |-> IntV(2)])>>), FALSE),
   Dumps(List(<<Dict([k |-> IntV(1)]), IntV(1)>>), FALSE)}

\* the HTTP responses of the upstream API: a completion with text content,
\* a refusal (content null), a 200 without choices, a 4xx and a 5xx
UpstreamResponses ==
  {[status |-> 200, kind |-> "content", content |-> t] : t \in ModelTexts}
  \cup {[status |-> 200, kind |-> "refusal", content |-> << >>],
        [status |-> 200, kind |-> "malformed", content |-> << >>],
        [status |-> 429, kind |-> "malformed", content |-> << >>],
        [status |-> 503, kind |-> "malformed", content |-> << >>]}

Flows == {"image", "transcription", "suggest"}

\* what each analysis function makes of each response
OutcomeOf == [flow \in Flows, r \in UpstreamResponses |-> outcome(flow, r)]

\* the list the comprehension of _normalize_meals makes is a new object
made_by(id, out) == IF out.ok THEN [out EXCEPT !.v = Obj(id, out.v.items)] ELSE out

\* a flow that writes the cache before it knows that nothing was raised
stored_despite_error(res, request) ==
  IF UsesCache(request.flow)
  THEN cache_set(cache_store, cache_meta,
                 CacheKey(request.flow, request.input), res.v, now)
  ELSE [store |-> cache_store, meta |-> cache_meta, evicted |-> {}]

\* _cache_set(cache_key, meals), reached when nothing was raised (and, in
\* suggest_meal, when the flow is deterministic): the cache after it
stored(res, request) ==
  IF res.ok /\ UsesCache(request.flow)
  THEN cache_set(cache_store, cache_meta,
                 CacheKey(request.flow, request.input), res.v, now)
  ELSE [store |-> cache_store, meta |-> cache_meta, evicted |-> {}]

ServeInit ==
  /\ cache_store = EmptyFn
  /\ cache_meta = << >>
  /\ now = 0
  /\ CACHE_TTL_SECONDS \in TTLs
  /\ CACHE_MAX_ITEMS \in Capacities
  /\ cop = NoCacheCall
  /\ SUGGEST_MEAL_DETERMINISTIC \in BOOLEAN
  /\ req = NoReq
  /\ spc = "idle"
  /\ attempt = 0
  /\ calls = 0
  /\ failures = 0
  /\ slept = << >>
  /\ resp = NoResp
  /\ looked = NoLook
  /\ result = NoResult
  /\ response = NoResponse
  /\ nreq = 0
  /\ NormIdle
  /\ ExtractIdle

\* what serving a request leaves alone
ServeFrame ==
  UNCHANGED <<nvars, evars, now, CACHE_TTL_SECONDS, CACHE_MAX_ITEMS, cop,
              SUGGEST_MEAL_DETERMINISTIC>>

\* an endpoint receives a request and calls its analysis function, which
\* returns the cached list or goes on to its first requests.post.  The
\* endpoints are coroutines (async def) of the one event loop, and they
\* call the analysis function, its requests.post and its time.sleep
\* directly, without await: the loop runs no other handler before the
\* running one has answered, so a request starts only when none is being
\* served (the await file.read() of the upload endpoint comes before
\* anything shared is read)
Request ==
  /\ spc \in {"idle", "done"}
  /\ nreq < MaxRequests
  /\ \E endpoint \in Endpoints : \E input \in InputsOf(endpoint) :
       LET flow == FlowOf(endpoint)
           key == CacheKey(flow, input)
           got == cache_get(cache_store, cache_meta, key, now)
           i == MetaIndex(cache_meta, key)
           hit == UsesCache(flow) /\ is_hit(got.ret)
       IN
       /\ req' = [endpoint |-> endpoint, flow |-> flow, input |-> input]
       /\ nreq' = nreq + 1
       /\ calls' = 0
       /\ failures' = 0
       /\ slept' = << >>
       /\ resp' = NoResp
       /\ looked' =
            IF UsesCache(flow) /\ i # 0
            THEN [present |-> TRUE,
                  fresh |-> now - cache_meta[i].ts <= CACHE_TTL_SECONDS,
                  value |-> cache_store[key]]
            ELSE NoLook
       /\ cache_store' = IF UsesCache(flow) THEN got.store ELSE cache_store
       /\ cache_meta' = IF UsesCache(flow) THEN got.meta ELSE cache_meta
       /\ result' = IF hit THEN [ok |-> TRUE, v |-> got.ret, exc |-> NoExc,
                                 why |-> "none"]
                    ELSE NoResult
       /\ response' = IF hit THEN respond(endpoint, result') ELSE NoResponse
       /\ attempt' = IF hit THEN 0 ELSE 1
       /\ spc' = IF hit THEN "done" ELSE "posting"
  /\ ServeFrame

\* requests.post raises a transport error: analyze_image logs it, sleeps
\* the delay of the failed attempt when it is not zero and tries again, or
\* gives up at the third attempt; the other two flows give up at once
PostFails ==
  /\ spc = "posting"
  /\ calls' = calls + 1
  /\ failures' = failures + 1
  /\ IF req.flow = "image" /\ ~(attempt >= 3)
     THEN /\ slept' = IF RetryDelays[attempt] # 0
                      THEN Append(slept, RetryDelays[attempt]) ELSE slept
          /\ attempt' = attempt + 1
          /\ UNCHANGED <<spc, result, response>>
     ELSE /\ result' = Fail("transport",
                            HTTPExc(502, "Upstream API request failed", NoMore))
          /\ response' = respond(req.endpoint, result')
          /\ spc' = "done"
          /\ UNCHANGED <<slept, attempt>>
  /\ UNCHANGED <<req, resp, looked, nreq, cache_store, cache_meta>>
  /\ ServeFrame

\* requests.post returns a response: the analysis function checks it,
\* extracts and normalizes the meals, stores them under the key and
\* returns them, or raises; the endpoint answers
PostResponds ==
  /\ spc = "posting"
  /\ \E r \in UpstreamResponses :
       /\ resp' = r
       /\ calls' = calls + 1
       /\ result' = made_by(nreq, OutcomeOf[req.flow, r])
       /\ response' = respond(req.endpoint, result')
       /\ cache_store' = stored(result', req).store
       /\ cache_meta' = stored(result', req).meta
       /\ spc' = "done"
  /\ UNCHANGED <<req, failures, slept, attempt, looked, nreq>>
  /\ ServeFrame

ServeNext == Request \/ PostFails \/ PostResponds \/ Tick

SpecServe == ServeInit /\ [][ServeNext]_vars


(***************************************************************************)
(* Claims about the upstream caller and the endpoints (under SpecServe).   *)
(***************************************************************************)
\* C15: in analyze_image and analyze_transcription, a request whose key has
\* a cache entry that is not older than the TTL, stored by an earlier
\* successful request for the same input, makes no upstream call and
\* returns the records that request stored.
C15_RepeatServedFromCache ==
  (spc = "done" /\ req.flow \in {"image", "transcription"} /\ looked.fresh) =>
    /\ calls = 0
    /\ result.ok
    /\ result.v = looked.value
    /\ looked.value.id \in 1 .. nreq - 1
    /\ response.status = 200
    /\ response.body = looked.value.items

\* C15 witness: the second request, a transcription with blanks around it,
\* was answered with the record the first one had stored
C15_Witness ==
  /\ spc = "done"
  /\ nreq = 2
  /\ req.flow = "transcription"
  /\ req.input[2]
  /\ looked.fresh
  /\ looked.value.id = 1
  /\ looked.value.items # << >>
  /\ calls = 0
  /\ response.body = looked.value.items

\* C16: the list returned to a caller is never the same object as a list
\* held in the cache, neither when it has just been stored nor on a hit.
C16_NoAliasing ==
  (spc = "done" /\ result.ok) =>
    \A k \in DOMAIN cache_store : cache_store[k].id # result.v.id

\* C17: in each of the three flows a transport failure is retried: at most
\* 3 attempts, none after an HTTP response, and the 502 for the transport
\* failure only after the third attempt failed.
C17_TransportRetried ==
  spc = "done" =>
    /\ calls <= 3
    /\ resp # NoResp => calls = failures + 1
    /\ (failures >= 1 /\ resp = NoResp) =>
         /\ failures = 3
         /\ result.exc.status = 502

\* C18: in a request whose attempts all fail in transport, each of the
\* delays 0s, 1s, 2s is applied as a wait (a wait of 0s being no wait).
C18_DelaySchedule ==
  (spc = "done" /\ resp = NoResp /\ failures = Len(RetryDelays)) =>
    \A i \in 1 .. Len(RetryDelays) :
      \/ RetryDelays[i] = 0
      \/ \E j \in 1 .. Len(slept) : slept[j] = RetryDelays[i]

\* C19: when the model text cannot be extracted, the caller of each
\* endpoint receives HTTP 502 with a preview of the text in the detail, and
\* the upstream call is not repeated.
C19_ExtractionFailureIs502 ==
  (spc = "done" /\ result.why = "extraction") =>
    /\ response.status = 502
    /\ response.inner.more.text = extract_meals_from_content(resp.content).snippet
    /\ calls = failures + 1

\* C20: a non-success upstream status or a refusal is surfaced without
\* retry, a refusal or an upstream 4xx as a 4xx and an upstream 5xx as a
\* 5xx, to the caller of the endpoint.
C20_RejectionStatus ==
  (spc = "done" /\ result.why \in {"status", "refusal"}) =>
    /\ calls = failures + 1
    /\ (result.why = "refusal" \/ resp.status \in 400 .. 499) =>
         response.status \in 400 .. 499
    /\ resp.status \in 500 .. 599 => response.status \in 500 .. 599

\* C21: whenever the analysis function of an endpoint raises an exception,
\* whatever its type, the endpoint answers HTTP 500 with a detail string
\* that starts with the endpoint's own message, and never 200.
C21_AnyExceptionIs500 ==
  (spc = "done" /\ ~result.ok) =>
    /\ response.status = 500
    /\ response.status # 200
    /\ response.msg = EndpointMsg(req.endpoint)
    /\ response.msg # ""
    /\ response.inner = result.exc

\* C21 witness: the analysis function raised an HTTPException with a
\* status other than 500 and the endpoint answered 500
C21_Witness ==
  /\ spc = "done"
  /\ ~result.ok
  /\ result.exc.type = "HTTPException"
  /\ result.exc.status = 502
  /\ response.status = 500
  /\ response.msg = EndpointMsg(req.endpoint)

\* C21 witness: the analysis function raised an exception that is not an
\* HTTPException
C21_WitnessOther ==
  /\ spc = "done"
  /\ ~result.ok
  /\ result.exc.type # "HTTPException"
  /\ response.status = 500

\* C22: requests are served concurrently: while a request waits for its
\* upstream call to return, the process is not blocked and another
\* incoming request can start.
C22_NotBlockedByUpstream ==
  (spc = "posting" /\ nreq < MaxRequests) => ENABLED Request

\* C23: every successful response of /suggest-meal is an array of exactly
\* one record, whatever number of records the model text holds.
C23_SuggestOneRecord ==
  (spc = "done" /\ req.endpoint = "/suggest-meal" /\ response.status = 200) =>
    Len(response.body) = 1

\* what _normalize_meal makes of each element of the extracted sequence
NormalizedEach(meals) == [i \in 1 .. Len(meals) |-> normalize_meal(meals[i])]

\* the whole list of a text: extracted tells whether the extraction
\* succeeded and ns holds what _normalize_meal made of each element; the
\* list has one normalized record per element, in their order, and there
\* is none when the extraction or a normalization failed
WholeFrom(extracted_ok, ns) ==
  [whole |-> extracted_ok /\ \A i \in DOMAIN ns : ns[i].ok,
   items |-> [i \in DOMAIN ns |-> ns[i].v],
   elements |-> Len(ns)]

WholeAfter(e) == WholeFrom(e.ok, NormalizedEach(e.v))

\* the whole list of each model text
WholeOf == [t \in ModelTexts |-> WholeAfter(extract_meals_from_content(t))]

\* the body of a successful answer is the whole list w, and the answer is
\* an error without a list when there is no whole list
WholeOrError(w, answer) ==
  /\ answer.status = 200 =>
       /\ w.whole
       /\ answer.body = w.items
       /\ Len(answer.body) = w.elements
  /\ ~w.whole =>
       /\ answer.status # 200
       /\ answer.body = << >>

\* the lists among ws that are whole
ItemsOfWhole(ws) == {w.items : w \in {x \in ws : x.whole}}

\* the lists a request may keep or return
WholeLists == ItemsOfWhole({WholeOf[t] : t \in ModelTexts})

\* C24: a request never yields a partial result: a successful answer holds
\* exactly one normalized record per element of the extracted sequence, in
\* the same order; when the extraction or the normalization of any element
\* fails, the request ends in an error and no list is returned; the lists
\* kept in the cache for later requests are whole too.
C24_NoPartialResult ==
  /\ (spc = "done" /\ resp.kind = "content") =>
       /\ WholeOrError(WholeOf[resp.content], response)
       /\ result.ok <=> response.status = 200
  /\ (spc = "done" /\ resp = NoResp /\ response.status = 200) =>
       /\ looked.present
       /\ response.body = looked.value.items
  /\ \A key \in DOMAIN cache_store : cache_store[key].items \in WholeLists

\* C24 witness: the second of two extracted elements could not be
\* normalized and the request ended in an error without a list
C24_Witness ==
  /\ spc = "done"
  /\ resp.kind = "content"
  /\ result.why = "normalization"
  /\ resp.content = Dumps(List(<<Dict([k |-> IntV(1)]), IntV(1)>>), FALSE)
  /\ response.status = 500
  /\ response.body = << >>

\* C24 witness: two extracted elements gave two records
C24_WitnessWhole ==
  /\ spc = "done"
  /\ resp.kind = "content"
  /\ response.status = 200
  /\ Len(response.body) = 2
  /\ response.body[1] # response.body[2]

\* the step inserts or overwrites the cache entry of key
Written(key) ==
  /\ key \in DOMAIN cache_store'
  /\ \/ key \notin DOMAIN cache_store
     \/ cache_store'[key] # cache_store[key]
     \/ TsOf(cache_meta', key) # TsOf(cache_meta, key)

\* what a step does to the cache: it leaves it alone when it ends a
\* request in an error and at every step of a suggest_meal request that is
\* not deterministic, and an entry is written only by the step that ends a
\* request in success, after the content was extracted and normalized,
\* under the key of that request and with the list it returns
WritesOnlyOnSuccess ==
  /\ (spc' = "done" /\ ~result'.ok) => UNCHANGED <<cache_store, cache_meta>>
  /\ (req'.flow = "suggest" /\ ~SUGGEST_MEAL_DETERMINISTIC) =>
       UNCHANGED <<cache_store, cache_meta>>
  /\ \A key \in DOMAIN cache_store' :
       Written(key) =>
         /\ spc = "posting"
         /\ spc' = "done"
         /\ result'.ok
         /\ response'.status = 200
         /\ resp'.kind = "content"
         /\ result'.why = "none"
         /\ key = CacheKey(req.flow, req.input)
         /\ cache_store'[key] = result'.v
         /\ TsOf(cache_meta', key) = now

\* C30: a request that ends in an error (transport failure, non-success
\* status, refusal, malformed payload, extraction or normalization
\* failure) never inserts or overwrites a cache entry: _cache_set is
\* reached only after extraction and normalization of the whole list
\* succeeded, and suggest_meal writes the cache only in deterministic mode.
C30_ErrorsNeverStore == [][WritesOnlyOnSuccess]_vars

\* C30 witness: the second request ended in an error after its content
\* had been extracted, and the cache holds what the first request stored
\* and nothing else
C30_Witness ==
  /\ spc = "done"
  /\ nreq = 2
  /\ ~result.ok
  /\ result.why = "normalization"
  /\ UsesCache(req.flow)
  /\ DOMAIN cache_store # {}
  /\ \A key \in DOMAIN cache_store : cache_store[key].id = 1

====
